---- MODULE Spec2Model ----
(***************************************************************************)
(* A model of the Porter stemmer of src/src/lib.rs.                        *)
(*                                                                         *)
(* Representation.  A text (&str) is a sequence of code points, each a     *)
(* one-character string; the code point U+0301 COMBINING ACUTE ACCENT is   *)
(* written "'".  A grapheme (&str slice holding one extended grapheme      *)
(* cluster) is a string, and a word (Vec<&str>, &[&str]) is a sequence of  *)
(* graphemes.  The source indexes words from 0; At(word, i) is word[i].    *)
(* A String result is a string.                                            *)
(*                                                                         *)
(* A Rust panic (index out of range, slice end out of range, usize         *)
(* subtraction below zero) is the control state "panic".  For every        *)
(* function f of the source, f is its return value and f_panics says       *)
(* whether the call panics; f is only consulted where f_panics is false.   *)
(***************************************************************************)
EXTENDS Integers, Sequences, FiniteSets, TLC

VARIABLES
    text,    \* the caller's text, tokenised into the argument of the call
    fn,      \* the function the caller invoked, "none" before the call
    pc,      \* control position: idle, guard, 1a .. 5b, ret, done, panic
    cur,     \* the `word` binding of the function being run
    trace,   \* the phase applications made so far by the current call
    ret,     \* the value returned to the caller
    round,   \* 1 for a call on the caller's word, 2 for one on a result
    first    \* the result of round 1, kept by the caller for round 2

vars == <<text, fn, pc, cur, trace, ret, round, first>>

----------------------------------------------------------------------------
(* Bounds of the model.                                                    *)

\* longest generated stem put in front of the suffixes of interest
MaxStem == 3

----------------------------------------------------------------------------
(* Slices and vectors.                                                     *)

\* the value no read inside the bounds can return
OutOfRange == "<out of range>"

InBounds(word, index) == index >= 0 /\ index < Len(word)

At(word, index) == IF InBounds(word, index) THEN word[index + 1] ELSE OutOfRange

\* &word[..n]
Prefix(word, n) == SubSeq(word, 1, n)

\* &word[..n] panics unless 0 <= n <= len; n comes from a usize subtraction
Prefix_panics(word, n) == n < 0 \/ n > Len(word)

\* Vec::truncate(n): no effect when n is not below the length
truncate(word, n) == IF n >= Len(word) THEN word ELSE SubSeq(word, 1, n)

\* Vec::push
push(word, grapheme) == Append(word, grapheme)

\* word[index] = grapheme
set_index(word, index, grapheme) ==
    [i \in 1..Len(word) |-> IF i = index + 1 THEN grapheme ELSE word[i]]

\* slice::ends_with
ends_with(word, suffix) ==
    /\ Len(word) >= Len(suffix)
    /\ SubSeq(word, Len(word) - Len(suffix) + 1, Len(word)) = suffix

----------------------------------------------------------------------------
(* Tokenisation and joining (stem, the tests' tokenise).                   *)

\* code points with Grapheme_Cluster_Break = Extend
Extend == {"'"}

\* UnicodeSegmentation::graphemes(true): a cluster boundary precedes every
\* code point except an Extend one that follows another code point
RECURSIVE graphemes_from(_, _, _)
graphemes_from(t, i, clusters) ==
    IF i > Len(t) THEN clusters
    ELSE IF t[i] \in Extend /\ Len(clusters) > 0
         THEN graphemes_from(t, i + 1,
                  [clusters EXCEPT ![Len(clusters)] = @ \o t[i]])
         ELSE graphemes_from(t, i + 1, Append(clusters, t[i]))

graphemes(t) == graphemes_from(t, 1, <<>>)

\* .iter().fold(String::new(), |prev, next| format!("{}{}", prev, next))
RECURSIVE fold_format(_, _, _)
fold_format(w, i, prev) ==
    IF i > Len(w) THEN prev ELSE fold_format(w, i + 1, prev \o w[i])

----------------------------------------------------------------------------
(* Grapheme classification.                                                *)

real_vowel(grapheme) == grapheme \in {"a", "e", "i", "o", "u"}

real_consonant(grapheme) == ~real_vowel(grapheme)

porter_vowel(word, index) ==
    LET grapheme == At(word, index) IN
    IF real_vowel(grapheme) THEN TRUE
    ELSE IF index = 0 \/ grapheme # "y" THEN FALSE
         ELSE real_consonant(At(word, index - 1))

porter_vowel_panics(word, index) ==
    \/ ~InBounds(word, index)
    \/ /\ ~real_vowel(At(word, index))
       /\ ~(index = 0 \/ At(word, index) # "y")
       /\ ~InBounds(word, index - 1)

porter_consonant(word, index) == ~porter_vowel(word, index)

porter_consonant_panics(word, index) == porter_vowel_panics(word, index)

contains_porter_vowel(word) ==
    \E index \in 0..(Len(word) - 1) : porter_vowel(word, index)

\* the loop reaches an index only when every earlier one returned false
contains_porter_vowel_panics(word) ==
    \E index \in 0..(Len(word) - 1) :
        /\ \A j \in 0..(index - 1) : ~porter_vowel(word, j)
        /\ porter_vowel_panics(word, index)

ends_double_porters_consonant(word) ==
    LET word_length == Len(word) IN
    IF word_length > 2
    THEN LET last_grapheme == At(word, word_length - 1)
             penultimate_grapheme == At(word, word_length - 2)
         IN  /\ last_grapheme = penultimate_grapheme
             /\ porter_consonant(word, word_length - 1)
    ELSE FALSE

ends_double_porters_consonant_panics(word) ==
    LET word_length == Len(word) IN
    /\ word_length > 2
    /\ \/ ~InBounds(word, word_length - 1)
       \/ ~InBounds(word, word_length - 2)
       \/ /\ At(word, word_length - 1) = At(word, word_length - 2)
          /\ porter_consonant_panics(word, word_length - 1)

ends_star_o(word) ==
    LET word_length == Len(word) IN
    IF word_length > 2
    THEN LET last_grapheme == At(word, word_length - 1) IN
         IF last_grapheme \in {"w", "x", "y"} THEN FALSE
         ELSE /\ porter_consonant(word, word_length - 1)
              /\ porter_vowel(word, word_length - 2)
              /\ porter_consonant(word, word_length - 3)
    ELSE FALSE

\* ends_star_o guarded by word_length > 1: the read of word_length - 3
\* is then reached on a word of two graphemes
ends_star_o_panics_guard_one(word) ==
    LET word_length == Len(word) IN
    /\ word_length > 1
    /\ \/ ~InBounds(word, word_length - 1)
       \/ /\ At(word, word_length - 1) \notin {"w", "x", "y"}
          /\ \/ porter_consonant_panics(word, word_length - 1)
             \/ /\ porter_consonant(word, word_length - 1)
                /\ \/ porter_vowel_panics(word, word_length - 2)
                   \/ /\ porter_vowel(word, word_length - 2)
                      /\ porter_consonant_panics(word, word_length - 3)

ends_star_o_panics(word) ==
    LET word_length == Len(word) IN
    /\ word_length > 2
    /\ \/ ~InBounds(word, word_length - 1)
       \/ /\ At(word, word_length - 1) \notin {"w", "x", "y"}
          /\ \/ porter_consonant_panics(word, word_length - 1)
             \/ /\ porter_consonant(word, word_length - 1)
                /\ \/ porter_vowel_panics(word, word_length - 2)
                   \/ /\ porter_vowel(word, word_length - 2)
                      /\ porter_consonant_panics(word, word_length - 3)

----------------------------------------------------------------------------
(* Measure.                                                                *)

\* the body of `for index in 1..word_length`
RECURSIVE measure_loop(_, _, _, _)
measure_loop(word, index, is_vowel_current, m) ==
    IF index >= Len(word) THEN m
    ELSE LET is_vowel == porter_vowel(word, index) IN
         IF ~is_vowel_current /\ is_vowel
         THEN measure_loop(word, index + 1, TRUE, m)
         ELSE IF is_vowel_current /\ ~is_vowel
              THEN measure_loop(word, index + 1, FALSE, m + 1)
              ELSE measure_loop(word, index + 1, is_vowel_current, m)

\* measure seeded as if position 0 always held a vowel
measure_seeded_vowel(word) ==
    IF Len(word) = 0 THEN 0
    ELSE measure_loop(word, 1, TRUE, 0)

\* measure seeded as if a "y" at position 0 were a vowel
measure_seeded_y(word) ==
    IF Len(word) = 0 THEN 0
    ELSE measure_loop(word, 1, real_vowel(At(word, 0)) \/ At(word, 0) = "y", 0)

measure(word) ==
    IF Len(word) = 0 THEN 0
    ELSE measure_loop(word, 1, real_vowel(At(word, 0)), 0)

measure_panics(word) ==
    /\ Len(word) # 0
    /\ \/ ~InBounds(word, 0)
       \/ \E index \in 1..(Len(word) - 1) : porter_vowel_panics(word, index)

----------------------------------------------------------------------------
(* Phases 1a, 1b, 1b' and 1c.                                              *)

phase_one_a(word) ==
    LET word_length == Len(word) IN
    IF ends_with(word, <<"s", "s", "e", "s">>) \/ ends_with(word, <<"i", "e", "s">>)
    THEN truncate(word, word_length - 2)
    ELSE IF ends_with(word, <<"s", "s">>) THEN word
    ELSE IF ends_with(word, <<"s">>) THEN truncate(word, word_length - 1)
    ELSE word

phase_one_a_panics(word) ==
    LET word_length == Len(word) IN
    IF ends_with(word, <<"s", "s", "e", "s">>) \/ ends_with(word, <<"i", "e", "s">>)
    THEN word_length - 2 < 0
    ELSE IF ends_with(word, <<"s", "s">>) THEN FALSE
    ELSE IF ends_with(word, <<"s">>) THEN word_length - 1 < 0
    ELSE FALSE

\* phase_one_b_substep without the exception for l, s and z
phase_one_b_substep_no_exception(word) ==
    LET word_length == Len(word) IN
    IF \/ ends_with(word, <<"a", "t">>)
       \/ ends_with(word, <<"b", "l">>)
       \/ ends_with(word, <<"i", "z">>)
    THEN push(word, "e")
    ELSE IF ends_double_porters_consonant(word)
    THEN truncate(word, word_length - 1)
    ELSE IF measure(word) = 1 /\ ends_star_o(word)
    THEN push(word, "e")
    ELSE word

phase_one_b_substep(word) ==
    LET word_length == Len(word) IN
    IF \/ ends_with(word, <<"a", "t">>)
       \/ ends_with(word, <<"b", "l">>)
       \/ ends_with(word, <<"i", "z">>)
    THEN push(word, "e")
    ELSE IF /\ ends_double_porters_consonant(word)
            /\ ~(\/ ends_with(word, <<"l">>)
                 \/ ends_with(word, <<"s">>)
                 \/ ends_with(word, <<"z">>))
    THEN truncate(word, word_length - 1)
    ELSE IF measure(word) = 1 /\ ends_star_o(word)
    THEN push(word, "e")
    ELSE word

phase_one_b_substep_panics(word) ==
    LET word_length == Len(word) IN
    IF \/ ends_with(word, <<"a", "t">>)
       \/ ends_with(word, <<"b", "l">>)
       \/ ends_with(word, <<"i", "z">>)
    THEN FALSE
    ELSE IF ends_double_porters_consonant_panics(word) THEN TRUE
    ELSE IF /\ ends_double_porters_consonant(word)
            /\ ~(\/ ends_with(word, <<"l">>)
                 \/ ends_with(word, <<"s">>)
                 \/ ends_with(word, <<"z">>))
    THEN word_length - 1 < 0
    ELSE IF measure_panics(word) THEN TRUE
    ELSE measure(word) = 1 /\ ends_star_o_panics(word)

\* the word phase_one_b hands to phase_one_b_substep, as a sequence of at
\* most one word: empty when the branch taken makes no such call
phase_one_b_substep_call(word) ==
    LET word_length == Len(word) IN
    IF ends_with(word, <<"e", "e", "d">>) THEN <<>>
    ELSE IF ends_with(word, <<"e", "d">>)
    THEN IF contains_porter_vowel(Prefix(word, word_length - 2))
         THEN <<truncate(word, word_length - 2)>>
         ELSE <<>>
    ELSE IF ends_with(word, <<"i", "n", "g">>)
    THEN IF contains_porter_vowel(Prefix(word, word_length - 3))
         THEN <<truncate(word, word_length - 3)>>
         ELSE <<>>
    ELSE <<>>

\* phase_one_b testing "ed" before "eed"
phase_one_b_ed_first(word) ==
    LET word_length == Len(word) IN
    IF ends_with(word, <<"e", "d">>)
    THEN IF contains_porter_vowel(Prefix(word, word_length - 2))
         THEN phase_one_b_substep(truncate(word, word_length - 2))
         ELSE word
    ELSE IF ends_with(word, <<"e", "e", "d">>)
    THEN IF measure(Prefix(word, word_length - 3)) > 0
         THEN truncate(word, word_length - 1)
         ELSE word
    ELSE IF ends_with(word, <<"i", "n", "g">>)
    THEN IF contains_porter_vowel(Prefix(word, word_length - 3))
         THEN phase_one_b_substep(truncate(word, word_length - 3))
         ELSE word
    ELSE word

phase_one_b(word) ==
    LET word_length == Len(word) IN
    IF ends_with(word, <<"e", "e", "d">>)
    THEN IF measure(Prefix(word, word_length - 3)) > 0
         THEN truncate(word, word_length - 1)
         ELSE word
    ELSE IF ends_with(word, <<"e", "d">>)
    THEN IF contains_porter_vowel(Prefix(word, word_length - 2))
         THEN phase_one_b_substep(truncate(word, word_length - 2))
         ELSE word
    ELSE IF ends_with(word, <<"i", "n", "g">>)
    THEN IF contains_porter_vowel(Prefix(word, word_length - 3))
         THEN phase_one_b_substep(truncate(word, word_length - 3))
         ELSE word
    ELSE word

phase_one_b_panics(word) ==
    LET word_length == Len(word) IN
    IF ends_with(word, <<"e", "e", "d">>)
    THEN \/ Prefix_panics(word, word_length - 3)
         \/ measure_panics(Prefix(word, word_length - 3))
    ELSE IF ends_with(word, <<"e", "d">>)
    THEN \/ Prefix_panics(word, word_length - 2)
         \/ contains_porter_vowel_panics(Prefix(word, word_length - 2))
         \/ /\ contains_porter_vowel(Prefix(word, word_length - 2))
            /\ phase_one_b_substep_panics(truncate(word, word_length - 2))
    ELSE IF ends_with(word, <<"i", "n", "g">>)
    THEN \/ Prefix_panics(word, word_length - 3)
         \/ contains_porter_vowel_panics(Prefix(word, word_length - 3))
         \/ /\ contains_porter_vowel(Prefix(word, word_length - 3))
            /\ phase_one_b_substep_panics(truncate(word, word_length - 3))
    ELSE FALSE

\* phase_one_c asking for a vowel in what precedes the last grapheme
phase_one_c_vowel_in_stem(word) ==
    LET word_length == Len(word) IN
    IF contains_porter_vowel(Prefix(word, word_length - 1)) /\ ends_with(word, <<"y">>)
    THEN set_index(word, word_length - 1, "i")
    ELSE word

phase_one_c(word) ==
    LET word_length == Len(word) IN
    IF contains_porter_vowel(word) /\ ends_with(word, <<"y">>)
    THEN set_index(word, word_length - 1, "i")
    ELSE word

phase_one_c_panics(word) ==
    LET word_length == Len(word) IN
    \/ contains_porter_vowel_panics(word)
    \/ /\ contains_porter_vowel(word)
       /\ ends_with(word, <<"y">>)
       /\ ~InBounds(word, word_length - 1)

----------------------------------------------------------------------------
(* Phases 2, 3 and 4.  Each is a chain of                                  *)
(*   if word.ends_with(&suffix) && measure(&word[..word_length - cut]) > m *)
(* branches; the chain is kept as the list of its branches in source order *)
(* and first_branch walks it as `else if` does.  A branch's body is a      *)
(* truncate to word_length - drop followed by pushes ("truncate"), an      *)
(* assignment to word[word_length - index] ("assign"), or a truncate under *)
(* a test of word[word_length - index] ("truncate_if").                    *)

RECURSIVE push_all(_, _, _)
push_all(word, pushed, i) ==
    IF i > Len(pushed) THEN word ELSE push_all(push(word, pushed[i]), pushed, i + 1)

\* branch_taken without the measure test: the first suffix that ends the
\* word decides
branch_taken_suffix_only(word, r, m) == ends_with(word, r.suffix)

branch_taken(word, r, m) ==
    /\ ends_with(word, r.suffix)
    /\ measure(Prefix(word, Len(word) - r.cut)) > m

branch_condition_panics(word, r) ==
    /\ ends_with(word, r.suffix)
    /\ \/ Prefix_panics(word, Len(word) - r.cut)
       \/ measure_panics(Prefix(word, Len(word) - r.cut))

\* branch_body pushing without truncating first
branch_body_no_truncate(word, r) ==
    LET word_length == Len(word) IN
    IF r.op = "assign" THEN set_index(word, word_length - r.index, r.grapheme)
    ELSE IF r.op = "truncate_if"
    THEN IF At(word, word_length - r.index) \in r.among
         THEN truncate(word, word_length - r.drop)
         ELSE word
    ELSE push_all(word, r.push, 1)

\* branch_body with the "ion" branch truncating whatever precedes the suffix
branch_body_untested(word, r) ==
    LET word_length == Len(word) IN
    IF r.op = "assign" THEN set_index(word, word_length - r.index, r.grapheme)
    ELSE IF r.op = "truncate_if" THEN truncate(word, word_length - r.drop)
    ELSE push_all(truncate(word, word_length - r.drop), r.push, 1)

\* branch_body pushing the grapheme it is to assign
branch_body_assign_pushes(word, r) ==
    LET word_length == Len(word) IN
    IF r.op = "assign" THEN push(word, r.grapheme)
    ELSE IF r.op = "truncate_if"
    THEN IF At(word, word_length - r.index) \in r.among
         THEN truncate(word, word_length - r.drop)
         ELSE word
    ELSE push_all(truncate(word, word_length - r.drop), r.push, 1)

branch_body(word, r) ==
    LET word_length == Len(word) IN
    IF r.op = "assign" THEN set_index(word, word_length - r.index, r.grapheme)
    ELSE IF r.op = "truncate_if"
    THEN IF At(word, word_length - r.index) \in r.among
         THEN truncate(word, word_length - r.drop)
         ELSE word
    ELSE push_all(truncate(word, word_length - r.drop), r.push, 1)

branch_body_panics(word, r) ==
    LET word_length == Len(word) IN
    IF r.op = "assign" THEN ~InBounds(word, word_length - r.index)
    ELSE IF r.op = "truncate_if"
    THEN \/ ~InBounds(word, word_length - r.index)
         \/ /\ At(word, word_length - r.index) \in r.among
            /\ word_length - r.drop < 0
    ELSE word_length - r.drop < 0

RECURSIVE first_branch(_, _, _, _)
first_branch(word, rules, i, m) ==
    IF i > Len(rules) THEN word
    ELSE IF branch_taken(word, rules[i], m) THEN branch_body(word, rules[i])
    ELSE first_branch(word, rules, i + 1, m)

RECURSIVE first_branch_panics(_, _, _, _)
first_branch_panics(word, rules, i, m) ==
    IF i > Len(rules) THEN FALSE
    ELSE IF branch_condition_panics(word, rules[i]) THEN TRUE
    ELSE IF branch_taken(word, rules[i], m) THEN branch_body_panics(word, rules[i])
    ELSE first_branch_panics(word, rules, i + 1, m)

phase_two_rules ==
    << [op |-> "truncate", suffix |-> <<"a", "t", "i", "o", "n", "a", "l">>, cut |-> 7, drop |-> 5, push |-> <<"e">>],
       [op |-> "truncate", suffix |-> <<"t", "i", "o", "n", "a", "l">>, cut |-> 6, drop |-> 2, push |-> <<>>],
       [op |-> "assign", suffix |-> <<"e", "n", "c", "i">>, cut |-> 4, index |-> 1, grapheme |-> "e"],
       [op |-> "assign", suffix |-> <<"a", "n", "c", "i">>, cut |-> 4, index |-> 1, grapheme |-> "e"],
       [op |-> "truncate", suffix |-> <<"i", "z", "e", "r">>, cut |-> 4, drop |-> 1, push |-> <<>>],
       [op |-> "assign", suffix |-> <<"a", "b", "l", "i">>, cut |-> 4, index |-> 1, grapheme |-> "e"],
       [op |-> "truncate", suffix |-> <<"a", "l", "l", "i">>, cut |-> 4, drop |-> 2, push |-> <<>>],
       [op |-> "truncate", suffix |-> <<"e", "n", "t", "l", "i">>, cut |-> 5, drop |-> 2, push |-> <<>>],
       [op |-> "truncate", suffix |-> <<"e", "l", "i">>, cut |-> 3, drop |-> 2, push |-> <<>>],
       [op |-> "truncate", suffix |-> <<"o", "u", "s", "l", "i">>, cut |-> 5, drop |-> 2, push |-> <<>>],
       [op |-> "truncate", suffix |-> <<"i", "z", "a", "t", "i", "o", "n">>, cut |-> 7, drop |-> 5, push |-> <<"e">>],
       [op |-> "truncate", suffix |-> <<"a", "t", "i", "o", "n">>, cut |-> 5, drop |-> 3, push |-> <<"e">>],
       [op |-> "truncate", suffix |-> <<"a", "t", "o", "r">>, cut |-> 4, drop |-> 2, push |-> <<"e">>],
       [op |-> "truncate", suffix |-> <<"a", "l", "i", "s", "m">>, cut |-> 5, drop |-> 3, push |-> <<>>],
       [op |-> "truncate", suffix |-> <<"i", "v", "e", "n", "e", "s", "s">>, cut |-> 7, drop |-> 4, push |-> <<>>],
       [op |-> "truncate", suffix |-> <<"f", "u", "l", "n", "e", "s", "s">>, cut |-> 7, drop |-> 4, push |-> <<>>],
       [op |-> "truncate", suffix |-> <<"o", "u", "s", "n", "e", "s", "s">>, cut |-> 7, drop |-> 4, push |-> <<>>],
       [op |-> "truncate", suffix |-> <<"a", "l", "i", "t", "i">>, cut |-> 5, drop |-> 3, push |-> <<>>],
       [op |-> "truncate", suffix |-> <<"i", "v", "i", "t", "i">>, cut |-> 5, drop |-> 3, push |-> <<"e">>],
       [op |-> "truncate", suffix |-> <<"b", "i", "l", "i", "t", "i">>, cut |-> 6, drop |-> 5, push |-> <<"l", "e">>] >>

\* phase_two asking measure > 1 of the stem
phase_two_above_one(word) == first_branch(word, phase_two_rules, 1, 1)

phase_two(word) == first_branch(word, phase_two_rules, 1, 0)

phase_two_panics(word) == first_branch_panics(word, phase_two_rules, 1, 0)

phase_three_rules ==
    << [op |-> "truncate", suffix |-> <<"i", "c", "a", "t", "e">>, cut |-> 5, drop |-> 3, push |-> <<>>],
       [op |-> "truncate", suffix |-> <<"a", "t", "i", "v", "e">>, cut |-> 5, drop |-> 5, push |-> <<>>],
       [op |-> "truncate", suffix |-> <<"a", "l", "i", "z", "e">>, cut |-> 5, drop |-> 3, push |-> <<>>],
       [op |-> "truncate", suffix |-> <<"i", "c", "i", "t", "i">>, cut |-> 5, drop |-> 3, push |-> <<>>],
       [op |-> "truncate", suffix |-> <<"i", "c", "a", "l">>, cut |-> 4, drop |-> 2, push |-> <<>>],
       [op |-> "truncate", suffix |-> <<"f", "u", "l">>, cut |-> 3, drop |-> 3, push |-> <<>>],
       [op |-> "truncate", suffix |-> <<"n", "e", "s", "s">>, cut |-> 4, drop |-> 4, push |-> <<>>] >>

phase_three(word) == first_branch(word, phase_three_rules, 1, 0)

phase_three_panics(word) == first_branch_panics(word, phase_three_rules, 1, 0)

phase_four_rules ==
    << [op |-> "truncate", suffix |-> <<"a", "l">>, cut |-> 2, drop |-> 2, push |-> <<>>],
       [op |-> "truncate", suffix |-> <<"a", "n", "c", "e">>, cut |-> 4, drop |-> 4, push |-> <<>>],
       [op |-> "truncate", suffix |-> <<"e", "n", "c", "e">>, cut |-> 4, drop |-> 4, push |-> <<>>],
       [op |-> "truncate", suffix |-> <<"e", "r">>, cut |-> 2, drop |-> 2, push |-> <<>>],
       [op |-> "truncate", suffix |-> <<"i", "c">>, cut |-> 2, drop |-> 2, push |-> <<>>],
       [op |-> "truncate", suffix |-> <<"a", "b", "l", "e">>, cut |-> 4, drop |-> 4, push |-> <<>>],
       [op |-> "truncate", suffix |-> <<"i", "b", "l", "e">>, cut |-> 4, drop |-> 4, push |-> <<>>],
       [op |-> "truncate", suffix |-> <<"a", "n", "t">>, cut |-> 3, drop |-> 3, push |-> <<>>],
       [op |-> "truncate", suffix |-> <<"e", "m", "e", "n", "t">>, cut |-> 5, drop |-> 5, push |-> <<>>],
       [op |-> "truncate", suffix |-> <<"m", "e", "n", "t">>, cut |-> 4, drop |-> 4, push |-> <<>>],
       [op |-> "truncate", suffix |-> <<"e", "n", "t">>, cut |-> 3, drop |-> 3, push |-> <<>>],
       [op |-> "truncate_if", suffix |-> <<"i", "o", "n">>, cut |-> 3, index |-> 4, among |-> {"s", "t"}, drop |-> 3],
       [op |-> "truncate", suffix |-> <<"o", "u">>, cut |-> 2, drop |-> 2, push |-> <<>>],
       [op |-> "truncate", suffix |-> <<"i", "s", "m">>, cut |-> 3, drop |-> 3, push |-> <<>>],
       [op |-> "truncate", suffix |-> <<"a", "t", "e">>, cut |-> 3, drop |-> 3, push |-> <<>>],
       [op |-> "truncate", suffix |-> <<"i", "t", "i">>, cut |-> 3, drop |-> 3, push |-> <<>>],
       [op |-> "truncate", suffix |-> <<"o", "u", "s">>, cut |-> 3, drop |-> 3, push |-> <<>>],
       [op |-> "truncate", suffix |-> <<"i", "v", "e">>, cut |-> 3, drop |-> 3, push |-> <<>>],
       [op |-> "truncate", suffix |-> <<"i", "z", "e">>, cut |-> 3, drop |-> 3, push |-> <<>>] >>

\* phase_four asking measure > 0 of the stem
phase_four_above_zero(word) == first_branch(word, phase_four_rules, 1, 0)

phase_four(word) == first_branch(word, phase_four_rules, 1, 1)

phase_four_panics(word) == first_branch_panics(word, phase_four_rules, 1, 1)

----------------------------------------------------------------------------
(* Phases 5a and 5b.                                                       *)

\* phase_5a without its second branch
phase_5a_first_branch_only(word) ==
    LET word_length == Len(word) IN
    IF /\ ends_with(word, <<"e">>)
       /\ measure(Prefix(word, word_length - 1)) > 1
    THEN truncate(word, word_length - 1)
    ELSE word

phase_5a(word) ==
    LET word_length == Len(word) IN
    IF /\ ends_with(word, <<"e">>)
       /\ measure(Prefix(word, word_length - 1)) > 1
    THEN truncate(word, word_length - 1)
    ELSE IF /\ ends_with(word, <<"e">>)
            /\ measure(Prefix(word, word_length - 1)) = 1
            /\ ~ends_star_o(Prefix(word, word_length - 1))
    THEN truncate(word, word_length - 1)
    ELSE word

phase_5a_panics(word) ==
    LET word_length == Len(word) IN
    /\ ends_with(word, <<"e">>)
    /\ \/ Prefix_panics(word, word_length - 1)
       \/ measure_panics(Prefix(word, word_length - 1))
       \/ /\ measure(Prefix(word, word_length - 1)) = 1
          /\ ends_star_o_panics(Prefix(word, word_length - 1))

phase_5b(word) ==
    LET word_length == Len(word) IN
    IF /\ ends_with(word, <<"l">>)
       /\ measure(word) > 1
       /\ ends_double_porters_consonant(word)
    THEN truncate(word, word_length - 1)
    ELSE word

phase_5b_panics(word) ==
    LET word_length == Len(word) IN
    /\ ends_with(word, <<"l">>)
    /\ \/ measure_panics(word)
       \/ /\ measure(word) > 1
          /\ \/ ends_double_porters_consonant_panics(word)
             \/ /\ ends_double_porters_consonant(word)
                /\ word_length - 1 < 0

----------------------------------------------------------------------------
(* The driver and the string wrapper.                                      *)

\* length_guard with the bound one too low
length_guard_above_one(word) == Len(word) > 1

\* length_guard with the bound one too high
length_guard_above_three(word) == Len(word) > 3

\* the test of `if word.len() > 2`
length_guard(word) == Len(word) > 2

stem_tokenized(word) ==
    IF length_guard(word)
    THEN phase_5b(phase_5a(phase_four(phase_three(phase_two(
             phase_one_c(phase_one_b(phase_one_a(word))))))))
    ELSE word

stem(t) == fold_format(stem_tokenized(graphemes(t)), 1, "")

\* the tests' tokenise
tokenise(t) == graphemes(t)

----------------------------------------------------------------------------
(* The texts the callers pass.                                             *)

\* the inputs of the unit tests
TestInputs ==
    { <<"a", "b", "a", "c", "u", "s">>,
      <<"a", "c", "t", "i", "v", "a", "t", "e">>,
      <<"a", "d", "j", "u", "s", "t", "a", "b", "l", "e">>,
      <<"a", "d", "j", "u", "s", "t", "m", "e", "n", "t">>,
      <<"a", "d", "o", "p", "t", "i", "o", "n">>,
      <<"a", "g", "r", "e", "e", "d">>,
      <<"a", "i", "r", "l", "i", "n", "e", "r">>,
      <<"a", "l", "l", "o", "w", "a", "n", "c", "e">>,
      <<"a", "n", "a", "l", "o", "g", "o", "u", "s", "l", "i">>,
      <<"a", "n", "g", "u", "l", "a", "r", "i", "t", "i">>,
      <<"a", "w", "h", "i", "l">>, <<"b", "a", "c", "o", "n">>,
      <<"b", "l", "e", "d">>,
      <<"b", "o", "w", "d", "l", "e", "r", "i", "z", "e">>,
      <<"c", "a", "l", "l", "o", "u", "s", "n", "e", "s", "s">>,
      <<"c", "a", "r", "e", "s", "s">>,
      <<"c", "a", "r", "e", "s", "s", "e", "s">>, <<"c", "a", "t", "s">>,
      <<"c", "e", "a", "s", "e">>,
      <<"c", "o", "m", "m", "u", "n", "i", "s", "m">>,
      <<"c", "o", "n", "d", "i", "t", "i", "o", "n", "a", "l">>,
      <<"c", "o", "n", "f", "l", "a", "t">>,
      <<"c", "o", "n", "f", "o", "r", "m", "a", "b", "l", "i">>,
      <<"c", "o", "n", "t", "r", "o", "l", "l">>,
      <<"c", "r", "e", "p", "u", "s", "c", "u", "l", "a", "r">>,
      <<"d", "a", "y">>,
      <<"d", "e", "c", "i", "s", "i", "v", "e", "n", "e", "s", "s">>,
      <<"d", "e", "f", "e", "n", "s", "i", "b", "l", "e">>,
      <<"d", "e", "p", "e", "n", "d", "e", "n", "t">>, <<"d", "e", "w">>,
      <<"d", "i", "f", "f", "e", "r", "e", "n", "t", "l", "i">>,
      <<"d", "i", "g", "i", "t", "i", "z", "e", "r">>,
      <<"e", "f", "f", "e", "c", "t", "i", "v", "e">>,
      <<"e", "l", "e", "c", "t", "r", "i", "c", "a", "l">>,
      <<"e", "l", "e", "c", "t", "r", "i", "c", "i", "t", "i">>,
      <<"f", "a", "i", "l">>, <<"f", "a", "l", "l">>, <<"f", "e", "e", "d">>,
      <<"f", "e", "u", "d", "a", "l", "i", "s", "m">>, <<"f", "i", "l">>,
      <<"f", "i", "z", "z">>,
      <<"f", "o", "r", "m", "a", "l", "i", "t", "i">>,
      <<"f", "o", "r", "m", "a", "l", "i", "z", "e">>,
      <<"f", "o", "r", "m", "a", "t", "i", "v", "e">>,
      <<"g", "o", "o", "d", "n", "e", "s", "s">>,
      <<"g", "r", "e", "y", "y">>,
      <<"g", "y", "r", "o", "s", "c", "o", "p", "i", "c">>,
      <<"h", "a", "p", "p", "y">>,
      <<"h", "e", "s", "i", "t", "a", "n", "c", "i">>,
      <<"h", "i", "s", "s">>,
      <<"h", "o", "m", "o", "l", "o", "g", "o", "u">>,
      <<"h", "o", "m", "o", "l", "o", "g", "o", "u", "s">>,
      <<"h", "o", "p", "e", "f", "u", "l">>,
      <<"h", "o", "p", "e", "f", "u", "l", "n", "e", "s", "s">>,
      <<"h", "o", "p", "p">>,
      <<"i", "n", "f", "e", "r", "e", "n", "c", "e">>,
      <<"i", "r", "r", "i", "t", "a", "n", "t">>, <<"m", "i", "x">>,
      <<"m", "o", "t", "o", "r", "i", "n", "g">>,
      <<"o", "p", "e", "r", "a", "t", "o", "r">>,
      <<"p", "a", "a", "c", "k", "k", "e", "e", "e", "r">>,
      <<"p", "l", "a", "s", "t", "e", "r", "e", "d">>,
      <<"p", "o", "n", "i", "e", "s">>,
      <<"p", "r", "e", "d", "i", "c", "a", "t", "i", "o", "n">>,
      <<"p", "r", "o", "b", "a", "t", "e">>,
      <<"r", "a", "d", "i", "c", "a", "l", "l", "i">>,
      <<"r", "a", "t", "e">>, <<"r", "a", "t", "i", "o", "n", "a", "l">>,
      <<"r", "e", "l", "a", "t", "i", "o", "n", "a", "l">>,
      <<"r", "e", "p", "l", "a", "c", "e", "m", "e", "n", "t">>,
      <<"r", "e", "v", "i", "v", "a", "l">>, <<"r", "o", "l", "l">>,
      <<"s", "e", "e">>, <<"s", "e", "l", "l">>,
      <<"s", "e", "n", "s", "i", "b", "i", "l", "i", "t", "i">>,
      <<"s", "e", "n", "s", "i", "t", "i", "v", "i", "t", "i">>,
      <<"s", "i", "n", "g">>, <<"s", "i", "z">>, <<"s", "k", "y">>,
      <<"s", "u", "r", "v", "e", "i", "l", "l", "a", "n", "c", "e">>,
      <<"s", "y", "z", "y", "g", "y">>, <<"t", "o", "y">>,
      <<"t", "r", "i", "p", "l", "i", "c", "a", "t", "e">>,
      <<"t", "r", "j", "k">>, <<"t", "r", "o", "u", "b", "l">>,
      <<"v", "a", "l", "e", "n", "c", "i">>,
      <<"v", "i", "e", "t", "n", "a", "m", "i", "z", "a", "t", "i", "o", "n">>,
      <<"v", "i", "l", "e", "l", "i">> }

\* the inputs of the end-to-end examples
EndToEndInputs ==
    { <<"c", "a", "r", "e", "s", "s", "e", "s">>, <<"a", "g", "r", "e", "e", "d">>,
      <<"m", "o", "t", "o", "r", "i", "n", "g">>, <<"r", "e", "l", "a", "t", "i", "o", "n", "a", "l">>,
      <<"t", "r", "i", "p", "l", "i", "c", "a", "t", "e">>, <<"c", "o", "n", "t", "r", "o", "l", "l">>,
      <<"s", "u", "r", "v", "e", "i", "l", "l", "a", "n", "c", "e">> }

\* the inputs of the documentation examples of stem and stem_tokenized
DocInputs ==
    { <<"t", "o", "t", "a", "l", "l", "y">>,
      <<"s", "t", "e", "m", "m", "i", "n", "g">> }

\* texts holding a combining mark
MarkedInputs ==
    { <<"'">>, <<"e", "'">>, <<"'", "a", "s">>, <<"a", "'", "s">>,
      <<"c", "a", "f", "e", "'", "s">>, <<"f", "e", "'", "e", "d">>,
      <<"n", "a", "i", "'", "v", "e", "l", "y", "'">> }

Letters ==
    { "a", "b", "c", "d", "e", "f", "g", "h", "i", "j", "k", "l", "m",
      "n", "o", "p", "q", "r", "s", "t", "u", "v", "w", "x", "y", "z" }

\* every text of at most two code points
ShortInputs ==
    UNION { [1..n -> Letters \cup Extend] : n \in 0..2 }

\* the letters of the generated stems: a vowel, a consonant and "y"
StemLetters == { "a", "t", "y" }

Stems == UNION { [1..n -> StemLetters] : n \in 0..MaxStem }

\* the endings the phases test, alone and stacked
Endings ==
    { <<>>, <<"s">>, <<"s", "s">>, <<"i", "e", "s">>, <<"s", "s", "e", "s">>,
      <<"e", "e", "d">>, <<"e", "d">>, <<"i", "n", "g">>,
      <<"a", "t", "e", "d">>, <<"b", "l", "e", "d">>, <<"i", "z", "i", "n", "g">>,
      <<"t", "t", "e", "d">>, <<"l", "l", "i", "n", "g">>, <<"s", "s", "e", "d">>,
      <<"z", "z", "e", "d">>, <<"y", "y", "e", "d">>, <<"l", "i", "n", "g">>,
      <<"w", "e", "d">>, <<"x", "i", "n", "g">>, <<"y", "i", "n", "g">>,
      <<"a", "t">>, <<"b", "l">>, <<"i", "z">>, <<"t", "t">>, <<"l", "l">>,
      <<"z", "z">>, <<"a", "a">>, <<"i", "l">>, <<"o", "w">>, <<"o", "x">>,
      <<"l">>, <<"e">>, <<"l", "e">>, <<"l", "l", "e">>, <<"i">> } \cup
    { phase_two_rules[i].suffix : i \in 1..Len(phase_two_rules) } \cup
    { phase_three_rules[i].suffix : i \in 1..Len(phase_three_rules) } \cup
    { phase_four_rules[i].suffix : i \in 1..Len(phase_four_rules) }

GeneratedInputs == { s \o e : s \in Stems, e \in Endings }

\* words ending "ion" after a stem of measure 2 that ends in neither "s"
\* nor "t", and a word ending "y" after consonants only
FurtherInputs ==
    { <<"c", "o", "m", "p", "a", "n", "i", "o", "n">>,
      <<"o", "p", "i", "n", "i", "o", "n">>,
      <<"t", "r", "y">> }

Texts ==
    TestInputs \cup EndToEndInputs \cup DocInputs \cup MarkedInputs
        \cup ShortInputs
        \cup GeneratedInputs
        \cup FurtherInputs

----------------------------------------------------------------------------
(* The state machine: a caller picks a text and calls one function of the  *)
(* library on it.                                                          *)

NoValue == "-"

Init ==
    /\ text \in Texts
    /\ fn = "none"
    /\ pc = "idle"
    /\ cur = <<>>
    /\ trace = <<>>
    /\ ret = NoValue
    /\ round = 1
    /\ first = NoValue

\* one phase application: its argument, its result and the word it handed
\* to phase_one_b_substep (a sequence of at most one word)
Application(name, word, result, substep) ==
    [phase |-> name, arg |-> word, res |-> result, sub |-> substep]

\* a phase called by stem_tokenized on its `word`
Run(name, panics, result, substep, next) ==
    /\ IF panics
       THEN pc' = "panic" /\ UNCHANGED <<cur, trace>>
       ELSE /\ pc' = next
            /\ cur' = result
            /\ trace' = Append(trace, Application(name, cur, result, substep))
    /\ UNCHANGED <<text, fn, ret, round, first>>

\* a phase called by the caller itself, as the unit tests do
Call(name, word, panics, result, substep) ==
    /\ pc = "idle"
    /\ fn' = name
    /\ cur' = word
    /\ IF panics
       THEN pc' = "panic" /\ UNCHANGED <<trace, ret>>
       ELSE /\ pc' = "done"
            /\ trace' = <<Application(name, word, result, substep)>>
            /\ ret' = result
    /\ UNCHANGED <<text, round, first>>

\* a predicate or measure called by the caller itself
Ask(name, word, panics, result) ==
    /\ pc = "idle"
    /\ fn' = name
    /\ cur' = word
    /\ IF panics
       THEN pc' = "panic" /\ UNCHANGED ret
       ELSE pc' = "done" /\ ret' = result
    /\ UNCHANGED <<text, trace, round, first>>

CallStem ==
    /\ pc = "idle"
    /\ fn' = "stem"
    /\ cur' = graphemes(text)
    /\ pc' = "guard"
    /\ UNCHANGED <<text, trace, ret, round, first>>

CallStemTokenized ==
    /\ pc = "idle"
    /\ fn' = "stem_tokenized"
    /\ cur' = tokenise(text)
    /\ pc' = "guard"
    /\ UNCHANGED <<text, trace, ret, round, first>>

Guard ==
    /\ pc = "guard"
    /\ pc' = IF length_guard(cur) THEN "1a" ELSE "ret"
    /\ UNCHANGED <<text, fn, cur, trace, ret, round, first>>

Phase1a ==
    /\ pc = "1a"
    /\ Run("1a", phase_one_a_panics(cur), phase_one_a(cur), <<>>, "1b")

Phase1b ==
    /\ pc = "1b"
    /\ Run("1b", phase_one_b_panics(cur), phase_one_b(cur),
           phase_one_b_substep_call(cur), "1c")

Phase1c ==
    /\ pc = "1c"
    /\ Run("1c", phase_one_c_panics(cur), phase_one_c(cur), <<>>, "2")

Phase2 ==
    /\ pc = "2"
    /\ Run("2", phase_two_panics(cur), phase_two(cur), <<>>, "3")

Phase3 ==
    /\ pc = "3"
    /\ Run("3", phase_three_panics(cur), phase_three(cur), <<>>, "4")

Phase4 ==
    /\ pc = "4"
    /\ Run("4", phase_four_panics(cur), phase_four(cur), <<>>, "5a")

Phase5a ==
    /\ pc = "5a"
    /\ Run("5a", phase_5a_panics(cur), phase_5a(cur), <<>>, "5b")

Phase5b ==
    /\ pc = "5b"
    /\ Run("5b", phase_5b_panics(cur), phase_5b(cur), <<>>, "ret")

\* stem_tokenized returns its word; stem joins it
Return ==
    /\ pc = "ret"
    /\ ret' = IF fn = "stem" THEN fold_format(cur, 1, "") ELSE cur
    /\ pc' = "done"
    /\ UNCHANGED <<text, fn, cur, trace, round, first>>

\* the caller hands a result of stem_tokenized back to stem_tokenized
Reapply ==
    /\ pc = "done"
    /\ fn = "stem_tokenized"
    /\ round = 1
    /\ first' = ret
    /\ cur' = ret
    /\ trace' = <<>>
    /\ round' = round + 1
    /\ pc' = "guard"
    /\ UNCHANGED <<text, fn, ret>>

CallPhaseOneA ==
    LET word == tokenise(text) IN
    Call("1a", word, phase_one_a_panics(word), phase_one_a(word), <<>>)

CallPhaseOneB ==
    LET word == tokenise(text) IN
    Call("1b", word, phase_one_b_panics(word), phase_one_b(word),
         phase_one_b_substep_call(word))

CallPhaseOneBSubstep ==
    LET word == tokenise(text) IN
    Call("1b'", word, phase_one_b_substep_panics(word),
         phase_one_b_substep(word), <<>>)

CallPhaseOneC ==
    LET word == tokenise(text) IN
    Call("1c", word, phase_one_c_panics(word), phase_one_c(word), <<>>)

CallPhaseTwo ==
    LET word == tokenise(text) IN
    Call("2", word, phase_two_panics(word), phase_two(word), <<>>)

CallPhaseThree ==
    LET word == tokenise(text) IN
    Call("3", word, phase_three_panics(word), phase_three(word), <<>>)

CallPhaseFour ==
    LET word == tokenise(text) IN
    Call("4", word, phase_four_panics(word), phase_four(word), <<>>)

CallPhase5a ==
    LET word == tokenise(text) IN
    Call("5a", word, phase_5a_panics(word), phase_5a(word), <<>>)

CallPhase5b ==
    LET word == tokenise(text) IN
    Call("5b", word, phase_5b_panics(word), phase_5b(word), <<>>)

CallMeasure ==
    LET word == tokenise(text) IN
    Ask("measure", word, measure_panics(word), measure(word))

CallContainsPorterVowel ==
    LET word == tokenise(text) IN
    Ask("contains_porter_vowel", word, contains_porter_vowel_panics(word),
        contains_porter_vowel(word))

CallEndsDoublePortersConsonant ==
    LET word == tokenise(text) IN
    Ask("ends_double_porters_consonant", word,
        ends_double_porters_consonant_panics(word),
        ends_double_porters_consonant(word))

CallEndsStarO ==
    LET word == tokenise(text) IN
    Ask("ends_star_o", word, ends_star_o_panics(word), ends_star_o(word))

Next ==
    \/ CallStem
    \/ CallStemTokenized
    \/ Guard
    \/ Phase1a
    \/ Phase1b
    \/ Phase1c
    \/ Phase2
    \/ Phase3
    \/ Phase4
    \/ Phase5a
    \/ Phase5b
    \/ Return
    \/ Reapply
    \/ CallPhaseOneA
    \/ CallPhaseOneB
    \/ CallPhaseOneBSubstep
    \/ CallPhaseOneC
    \/ CallPhaseTwo
    \/ CallPhaseThree
    \/ CallPhaseFour
    \/ CallPhase5a
    \/ CallPhase5b
    \/ CallMeasure
    \/ CallContainsPorterVowel
    \/ CallEndsDoublePortersConsonant
    \/ CallEndsStarO

Spec == Init /\ [][Next]_vars

----------------------------------------------------------------------------
(* Properties.                                                             *)

\* the word the current call of stem or stem_tokenized was given
Argument == IF round = 1 THEN graphemes(text) ELSE first

DriverCall == fn \in {"stem", "stem_tokenized"}

PhasePositions == {"1a", "1b", "1c", "2", "3", "4", "5a", "5b"}

\* w without its last n graphemes
DropLast(w, n) == SubSeq(w, 1, Len(w) - n)

\* the strings of w written one after the other, built from the right
RECURSIVE Concatenation(_)
Concatenation(w) ==
    IF w = <<>> THEN "" ELSE Concatenation(DropLast(w, 1)) \o w[Len(w)]

\* C1: stem_tokenized returns a word of 0, 1 or 2 graphemes unchanged,
\* whatever its graphemes are: no phase is entered, none is applied, and the
\* value returned is the argument.
C1_ShortWordUnchanged ==
    (fn = "stem_tokenized" /\ Len(Argument) <= 2) =>
        /\ pc \in {"guard", "ret", "done"}
        /\ trace = <<>>
        /\ cur = Argument
        /\ pc = "done" => ret = Argument

\* a word of two graphemes that phase 1a would shorten has been returned
C1_Witness ==
    /\ fn = "stem_tokenized"
    /\ pc = "done"
    /\ round = 1
    /\ Len(graphemes(text)) = 2
    /\ phase_one_a(graphemes(text)) # graphemes(text)
    /\ ret = graphemes(text)

\* C2: no call of stem_tokenized, of a phase function or of a predicate, on
\* any word including the empty one, reads an index outside [0, len) or
\* computes a negative length: no call panics, and every call that has not
\* yet returned can take its next step.
C2_NoPanic ==
    /\ pc # "panic"
    /\ pc # "done" => ENABLED Next

\* phase_four has returned from a call on the bare suffix "ion", whose
\* branch reads word[word_length - 4]
C2_Witness ==
    /\ fn = "4"
    /\ pc = "done"
    /\ cur = <<"i", "o", "n">>
    /\ ret = cur

\* what the specification says stem returns for its end-to-end examples
C3_Claimed ==
    { <<<<"c", "a", "r", "e", "s", "s", "e", "s">>, "caress">>,
      <<<<"a", "g", "r", "e", "e", "d">>, "agree">>,
      <<<<"m", "o", "t", "o", "r", "i", "n", "g">>, "motor">>,
      <<<<"r", "e", "l", "a", "t", "i", "o", "n", "a", "l">>, "relate">>,
      <<<<"t", "r", "i", "p", "l", "i", "c", "a", "t", "e">>, "triplic">>,
      <<<<"s", "u", "r", "v", "e", "i", "l", "l", "a", "n", "c", "e">>, "surveil">>,
      <<<<"c", "o", "n", "t", "r", "o", "l", "l">>, "control">> }

\* what stem returns for them
C3_Returned ==
    { <<<<"c", "a", "r", "e", "s", "s", "e", "s">>, "caress">>,
      <<<<"a", "g", "r", "e", "e", "d">>, "agre">>,
      <<<<"m", "o", "t", "o", "r", "i", "n", "g">>, "motor">>,
      <<<<"r", "e", "l", "a", "t", "i", "o", "n", "a", "l">>, "relat">>,
      <<<<"t", "r", "i", "p", "l", "i", "c", "a", "t", "e">>, "triplic">>,
      <<<<"s", "u", "r", "v", "e", "i", "l", "l", "a", "n", "c", "e">>, "surveil">>,
      <<<<"c", "o", "n", "t", "r", "o", "l", "l">>, "control">> }

\* C3 as stated: stem returns caress, agree, motor, relate, triplic, surveil
\* and control for caresses, agreed, motoring, relational, triplicate,
\* surveillance and controll.
C3_AsStated ==
    (fn = "stem" /\ pc = "done") =>
        \A e \in C3_Claimed : text = e[1] => ret = e[2]

\* C3 as amended: stem returns caress, agre, motor, relat, triplic, surveil
\* and control for them: phases 5a and 4 go on to shorten the "agree" and
\* "relate" that phases 1b and 2 produce.
C3_EndToEnd ==
    (fn = "stem" /\ pc = "done") =>
        \A e \in C3_Returned : text = e[1] => ret = e[2]

\* stem has returned "agre" for "agreed", the run having passed "agree"
C3_Witness ==
    /\ fn = "stem"
    /\ pc = "done"
    /\ text = <<"a", "g", "r", "e", "e", "d">>
    /\ ret = "agre"
    /\ \E i \in 1..Len(trace) :
           trace[i].phase = "1b" /\ trace[i].res = <<"a", "g", "r", "e", "e">>

\* C4: stem returns the graphemes of stem_tokenized's result, for the
\* graphemes of its text, written one after the other in order; stem gives
\* "total" for "totally", and stem_tokenized gives s,t,e,m for
\* s,t,e,m,m,i,n,g and the graphemes of "surveil" for those of
\* "surveillance".
C4_StemJoinsStemTokenized ==
    /\ (fn = "stem" /\ pc = "done") =>
          /\ ret = Concatenation(cur)
          /\ cur = stem_tokenized(graphemes(text))
          /\ text = <<"t", "o", "t", "a", "l", "l", "y">> => ret = "total"
    /\ (fn = "stem_tokenized" /\ pc = "done" /\ round = 1) =>
          /\ text = <<"s", "t", "e", "m", "m", "i", "n", "g">> =>
                 ret = <<"s", "t", "e", "m">>
          /\ text = <<"s", "u", "r", "v", "e", "i", "l", "l", "a", "n", "c", "e">> =>
                 ret = <<"s", "u", "r", "v", "e", "i", "l">>

\* stem has returned "total" for "totally"
C4_Witness ==
    /\ fn = "stem"
    /\ pc = "done"
    /\ text = <<"t", "o", "t", "a", "l", "l", "y">>
    /\ ret = "total"

\* C5: no phase application returns a word more than one grapheme longer
\* than the word it was given, and only an application of the 1b' substep,
\* called by itself or from inside phase 1b, returns a longer one; this
\* holds of every application of every call.
C5_OnlySubstepGrows ==
    \A i \in 1..Len(trace) :
        LET e == trace[i] IN
        /\ Len(e.res) <= Len(e.arg) + 1
        /\ Len(e.res) > Len(e.arg) => e.phase = "1b'"
        /\ e.sub # <<>> => Len(e.res) <= Len(e.sub[1]) + 1

\* inside a run of stem_tokenized, phase 1b has called the substep and the
\* substep has returned a word one grapheme longer than it was given
C5_Witness ==
    /\ fn = "stem_tokenized"
    /\ \E i \in 1..Len(trace) :
           /\ trace[i].phase = "1b"
           /\ trace[i].sub # <<>>
           /\ Len(trace[i].res) = Len(trace[i].sub[1]) + 1

\* the test corpus: the inputs of the unit tests and of the end-to-end
\* examples
Corpus == TestInputs \cup EndToEndInputs

\* C6 as stated: for every word of the test corpus, stem_tokenized applied
\* to its own result returns that result.
C6_AsStated ==
    (fn = "stem_tokenized" /\ pc = "done" /\ round = 2 /\ text \in Corpus) =>
        ret = first

\* the corpus words whose stem is stemmed further
C6_Unstable ==
    { <<"a", "g", "r", "e", "e", "d">>,
      <<"c", "a", "l", "l", "o", "u", "s", "n", "e", "s", "s">>,
      <<"c", "e", "a", "s", "e">>,
      <<"d", "e", "c", "i", "s", "i", "v", "e", "n", "e", "s", "s">>,
      <<"d", "e", "f", "e", "n", "s", "i", "b", "l", "e">> }

\* C6 as amended: for every word of the test corpus except agreed,
\* callousness, cease, decisiveness and defensible, stem_tokenized applied
\* to its own result returns that result; for those five it returns that
\* result without its last grapheme.
C6_StableOnCorpus ==
    (fn = "stem_tokenized" /\ pc = "done" /\ round = 2 /\ text \in Corpus) =>
        IF text \in C6_Unstable
        THEN Len(first) > 0 /\ ret = DropLast(first, 1)
        ELSE ret = first

\* stem_tokenized has been applied to its result for "caresses", a result
\* that differs from the word, and has returned it
C6_Witness ==
    /\ fn = "stem_tokenized"
    /\ pc = "done"
    /\ round = 2
    /\ text = <<"c", "a", "r", "e", "s", "s", "e", "s">>
    /\ first = <<"c", "a", "r", "e", "s", "s">>
    /\ ret = first

C7_Order == <<"1a", "1b", "1c", "2", "3", "4", "5a", "5b">>

\* the number of phases a call at position p has behind it
C7_Behind(p) ==
    IF p = "guard" THEN 0
    ELSE IF p \in {"ret", "done"} THEN Len(C7_Order)
    ELSE CHOOSE k \in 0..(Len(C7_Order) - 1) : C7_Order[k + 1] = p

\* C7: on a word of more than two graphemes stem_tokenized applies 1a, 1b,
\* 1c, 2, 3, 4, 5a, 5b once each in that order, each to the result of the
\* one before and the first to the argument, whatever length the word has by
\* then, and returns the result of 5b.
C7_FixedOrder ==
    (DriverCall /\ Len(Argument) > 2) =>
        /\ pc \in PhasePositions \cup {"guard", "ret", "done"}
        /\ Len(trace) = C7_Behind(pc)
        /\ \A i \in 1..Len(trace) :
               /\ trace[i].phase = C7_Order[i]
               /\ trace[i].arg = IF i = 1 THEN Argument ELSE trace[i - 1].res
        /\ cur = IF trace = <<>> THEN Argument ELSE trace[Len(trace)].res
        /\ pc = "done" =>
               ret = IF fn = "stem" THEN Concatenation(trace[Len(C7_Order)].res)
                     ELSE trace[Len(C7_Order)].res

\* a run has returned in which a phase left at most two graphemes and a
\* later phase still changed the word
C7_Witness ==
    /\ fn = "stem_tokenized"
    /\ pc = "done"
    /\ Len(Argument) > 2
    /\ \E i \in 1..Len(trace) : \E j \in (i + 1)..Len(trace) :
           /\ Len(trace[i].res) <= 2
           /\ trace[j].res # trace[j].arg

\* the positions of w, from 1, at which a consonant follows a vowel
C8_Transitions(w) ==
    { i \in 1..(Len(w) - 1) : porter_vowel(w, i - 1) /\ ~porter_vowel(w, i) }

\* the classes (TRUE for a vowel) of the maximal runs of w, in order
RECURSIVE C8_Runs(_, _)
C8_Runs(w, n) ==
    IF n = 0 THEN <<>>
    ELSE IF n > 1 /\ porter_vowel(w, n - 1) = porter_vowel(w, n - 2)
         THEN C8_Runs(w, n - 1)
         ELSE Append(C8_Runs(w, n - 1), porter_vowel(w, n - 1))

\* the runs of w without a leading consonant run and a trailing vowel run:
\* the (VC)^m of C?(VC)^m V?
C8_Pairs(w) ==
    LET runs == C8_Runs(w, Len(w))
        from == IF runs # <<>> /\ ~runs[1] THEN 2 ELSE 1
        to   == IF runs # <<>> /\ runs[Len(runs)] THEN Len(runs) - 1 ELSE Len(runs)
    IN  SubSeq(runs, from, to)

\* C8: measure returns 0 for the empty word and otherwise the number of
\* places where a consonant run follows a vowel run, the m of the form
\* C?(VC)^m V?; it returns 2 for bacon, 3 for abacus, 4 for crepuscular,
\* 2 for paackkeeer and 2 for syzygy.
C8_MeasureCountsPairs ==
    (fn = "measure" /\ pc = "done") =>
        /\ cur = <<>> => ret = 0
        /\ ret = Cardinality(C8_Transitions(cur))
        /\ Len(C8_Pairs(cur)) = 2 * ret
        /\ \A k \in 1..Len(C8_Pairs(cur)) : C8_Pairs(cur)[k] = (k % 2 = 1)
        /\ cur = <<"b", "a", "c", "o", "n">> => ret = 2
        /\ cur = <<"a", "b", "a", "c", "u", "s">> => ret = 3
        /\ cur = <<"c", "r", "e", "p", "u", "s", "c", "u", "l", "a", "r">> => ret = 4
        /\ cur = <<"p", "a", "a", "c", "k", "k", "e", "e", "e", "r">> => ret = 2
        /\ cur = <<"s", "y", "z", "y", "g", "y">> => ret = 2

\* measure has returned 4 for crepuscular, which starts with a consonant
\* run
C8_Witness ==
    /\ fn = "measure"
    /\ pc = "done"
    /\ cur = <<"c", "r", "e", "p", "u", "s", "c", "u", "l", "a", "r">>
    /\ ret = 4

\* w ends with the graphemes s
C9_Ends(w, s) ==
    Len(w) >= Len(s) /\ \A k \in 1..Len(s) : w[Len(w) - Len(s) + k] = s[k]

\* what phase 1b is to do with w: the word it hands to 1b' (none: <<>>) and,
\* when it hands none, the word it returns
C9_Expected(w) ==
    IF C9_Ends(w, <<"e", "e", "d">>)
    THEN [sub |-> <<>>,
          res |-> IF measure(DropLast(w, 3)) > 0 THEN DropLast(w, 1) ELSE w]
    ELSE IF C9_Ends(w, <<"e", "d">>) /\ contains_porter_vowel(DropLast(w, 2))
    THEN [sub |-> <<DropLast(w, 2)>>]
    ELSE IF C9_Ends(w, <<"e", "d">>)
    THEN [sub |-> <<>>, res |-> w]
    ELSE IF C9_Ends(w, <<"i", "n", "g">>) /\ contains_porter_vowel(DropLast(w, 3))
    THEN [sub |-> <<DropLast(w, 3)>>]
    ELSE [sub |-> <<>>, res |-> w]

C9_Examples ==
    { <<<<"f", "e", "e", "d">>, <<"f", "e", "e", "d">>>>,
      <<<<"a", "g", "r", "e", "e", "d">>, <<"a", "g", "r", "e", "e">>>>,
      <<<<"p", "l", "a", "s", "t", "e", "r", "e", "d">>,
        <<"p", "l", "a", "s", "t", "e", "r">>>>,
      <<<<"b", "l", "e", "d">>, <<"b", "l", "e", "d">>>>,
      <<<<"m", "o", "t", "o", "r", "i", "n", "g">>, <<"m", "o", "t", "o", "r">>>>,
      <<<<"s", "i", "n", "g">>, <<"s", "i", "n", "g">>>> }

\* C9: phase 1b turns a word ending "eed" into the word without its "d" iff
\* what precedes "eed" has measure > 0 and otherwise returns it unchanged,
\* never trying "ed" on it; it drops an "ed" (not "eed") or an "ing" iff
\* what precedes it contains a porter vowel, and then and only then applies
\* 1b' to what is left and returns its result; it returns any other word
\* unchanged without applying 1b'.  feed, bled and sing are unchanged;
\* agreed, plastered and motoring give agree, plaster and motor.
C9_PhaseOneB ==
    \A i \in 1..Len(trace) :
        LET e == trace[i]
            x == C9_Expected(e.arg)
        IN  e.phase = "1b" =>
                /\ e.sub = x.sub
                /\ e.sub = <<>> => e.res = x.res
                /\ e.sub # <<>> => e.res = phase_one_b_substep(e.sub[1])
                /\ \A t \in C9_Examples : e.arg = t[1] => e.res = t[2]

\* phase 1b has returned feed for feed: "eed" after a part of measure 0
C9_Witness ==
    /\ fn = "1b"
    /\ pc = "done"
    /\ cur = <<"f", "e", "e", "d">>
    /\ ret = cur
    /\ trace[1].sub = <<>>

\* w ends in a doubled consonant
C10_Doubled(w) ==
    /\ Len(w) > 2
    /\ w[Len(w)] = w[Len(w) - 1]
    /\ porter_consonant(w, Len(w) - 1)

\* what 1b' is to return for w
C10_Expected(w) ==
    IF \E s \in {<<"a", "t">>, <<"b", "l">>, <<"i", "z">>} : C9_Ends(w, s)
    THEN w \o <<"e">>
    ELSE IF C10_Doubled(w) /\ w[Len(w)] \notin {"l", "s", "z"}
    THEN DropLast(w, 1)
    ELSE IF measure(w) = 1 /\ ends_star_o(w)
    THEN w \o <<"e">>
    ELSE w

C10_Examples ==
    { <<<<"c", "o", "n", "f", "l", "a", "t">>,
        <<"c", "o", "n", "f", "l", "a", "t", "e">>>>,
      <<<<"t", "r", "o", "u", "b", "l">>, <<"t", "r", "o", "u", "b", "l", "e">>>>,
      <<<<"s", "i", "z">>, <<"s", "i", "z", "e">>>>,
      <<<<"h", "o", "p", "p">>, <<"h", "o", "p">>>>,
      <<<<"h", "i", "s", "s">>, <<"h", "i", "s", "s">>>>,
      <<<<"f", "i", "z", "z">>, <<"f", "i", "z", "z">>>>,
      <<<<"f", "a", "l", "l">>, <<"f", "a", "l", "l">>>>,
      <<<<"f", "a", "i", "l">>, <<"f", "a", "i", "l">>>>,
      <<<<"f", "i", "l">>, <<"f", "i", "l", "e">>>> }

\* C10: the 1b' substep applies the first of these that holds and nothing
\* else: the word ends "at", "bl" or "iz": append "e"; the word ends in a
\* doubled consonant that is not l, s or z: drop the last grapheme; the
\* word has measure 1 and ends consonant-vowel-consonant (*o): append "e";
\* otherwise the word is unchanged.  This holds of the substep called by
\* itself and called by phase 1b.
C10_Substep ==
    \A i \in 1..Len(trace) :
        LET e == trace[i] IN
        /\ e.phase = "1b'" =>
               /\ e.res = C10_Expected(e.arg)
               /\ \A t \in C10_Examples : e.arg = t[1] => e.res = t[2]
        /\ (e.phase = "1b" /\ e.sub # <<>>) => e.res = C10_Expected(e.sub[1])

\* the substep has returned hiss for hiss: a doubled s is kept
C10_Witness ==
    /\ fn = "1b'"
    /\ pc = "done"
    /\ cur = <<"h", "i", "s", "s">>
    /\ ret = cur

\* the entries of phase 2: a suffix and what replaces it
C11_PhaseTwoTable ==
    << <<<<"a", "t", "i", "o", "n", "a", "l">>, <<"a", "t", "e">>>>,
       <<<<"t", "i", "o", "n", "a", "l">>, <<"t", "i", "o", "n">>>>,
       <<<<"e", "n", "c", "i">>, <<"e", "n", "c", "e">>>>,
       <<<<"a", "n", "c", "i">>, <<"a", "n", "c", "e">>>>,
       <<<<"i", "z", "e", "r">>, <<"i", "z", "e">>>>,
       <<<<"a", "b", "l", "i">>, <<"a", "b", "l", "e">>>>,
       <<<<"a", "l", "l", "i">>, <<"a", "l">>>>,
       <<<<"e", "n", "t", "l", "i">>, <<"e", "n", "t">>>>,
       <<<<"e", "l", "i">>, <<"e">>>>,
       <<<<"o", "u", "s", "l", "i">>, <<"o", "u", "s">>>>,
       <<<<"i", "z", "a", "t", "i", "o", "n">>, <<"i", "z", "e">>>>,
       <<<<"a", "t", "i", "o", "n">>, <<"a", "t", "e">>>>,
       <<<<"a", "t", "o", "r">>, <<"a", "t", "e">>>>,
       <<<<"a", "l", "i", "s", "m">>, <<"a", "l">>>>,
       <<<<"i", "v", "e", "n", "e", "s", "s">>, <<"i", "v", "e">>>>,
       <<<<"f", "u", "l", "n", "e", "s", "s">>, <<"f", "u", "l">>>>,
       <<<<"o", "u", "s", "n", "e", "s", "s">>, <<"o", "u", "s">>>>,
       <<<<"a", "l", "i", "t", "i">>, <<"a", "l">>>>,
       <<<<"i", "v", "i", "t", "i">>, <<"i", "v", "e">>>>,
       <<<<"b", "i", "l", "i", "t", "i">>, <<"b", "l", "e">>>> >>

\* the entries of phase 3
C11_PhaseThreeTable ==
    << <<<<"i", "c", "a", "t", "e">>, <<"i", "c">>>>,
       <<<<"a", "t", "i", "v", "e">>, <<>>>>,
       <<<<"a", "l", "i", "z", "e">>, <<"a", "l">>>>,
       <<<<"i", "c", "i", "t", "i">>, <<"i", "c">>>>,
       <<<<"i", "c", "a", "l">>, <<"i", "c">>>>,
       <<<<"f", "u", "l">>, <<>>>>,
       <<<<"n", "e", "s", "s">>, <<>>>> >>

\* entry k of table is satisfied by w: its suffix ends w and what precedes
\* the suffix has measure above least
C11_Satisfied(w, table, k, least) ==
    /\ C9_Ends(w, table[k][1])
    /\ measure(DropLast(w, Len(table[k][1]))) > least

\* what a phase with that table is to return for w
C11_Expected(w, table) ==
    LET sat == { k \in 1..Len(table) : C11_Satisfied(w, table, k, 0) } IN
    IF sat = {} THEN w
    ELSE LET k == CHOOSE x \in sat : \A y \in sat : x <= y
         IN  DropLast(w, Len(table[k][1])) \o table[k][2]

C12_Suffixes ==
    << <<"a", "l">>, <<"a", "n", "c", "e">>, <<"e", "n", "c", "e">>,
       <<"e", "r">>, <<"i", "c">>, <<"a", "b", "l", "e">>,
       <<"i", "b", "l", "e">>, <<"a", "n", "t">>,
       <<"e", "m", "e", "n", "t">>, <<"m", "e", "n", "t">>,
       <<"e", "n", "t">>, <<"i", "o", "n">>, <<"o", "u">>,
       <<"i", "s", "m">>, <<"a", "t", "e">>, <<"i", "t", "i">>,
       <<"o", "u", "s">>, <<"i", "v", "e">>, <<"i", "z", "e">> >>

\* phase 4 as a table: every entry replaces its suffix by nothing
C12_Table == [k \in 1..Len(C12_Suffixes) |-> <<C12_Suffixes[k], <<>>>>]

\* what phase 4 is to return for w
C12_Expected(w) ==
    LET sat == { k \in 1..Len(C12_Table) : C11_Satisfied(w, C12_Table, k, 1) } IN
    IF sat = {} THEN w
    ELSE LET k == CHOOSE x \in sat : \A y \in sat : x <= y
             stem_of_w == DropLast(w, Len(C12_Suffixes[k]))
         IN  IF C12_Suffixes[k] = <<"i", "o", "n">>
                  /\ stem_of_w[Len(stem_of_w)] \notin {"s", "t"}
             THEN w
             ELSE stem_of_w

\* C12: phase 4 returns the word without the suffix of the first entry, in
\* the order al .. ize, whose suffix ends the word and whose stem has
\* measure > 1, except that for "ion" it does so only when "s" or "t"
\* precedes the suffix and otherwise returns the word unchanged; it returns
\* a word satisfying no entry unchanged; an entry whose suffix ends the word
\* but whose stem has measure <= 1 does not keep a later entry from
\* applying.
C12_PhaseFour ==
    \A i \in 1..Len(trace) :
        LET e == trace[i] IN
        e.phase = "4" =>
            /\ e.res = C12_Expected(e.arg)
            /\ (\A k \in 1..Len(C12_Table) : ~C11_Satisfied(e.arg, C12_Table, k, 1))
                   => e.res = e.arg
            /\ e.arg = <<"a", "d", "o", "p", "t", "i", "o", "n">> =>
                   e.res = <<"a", "d", "o", "p", "t">>
            /\ e.arg = <<"o", "p", "i", "n", "i", "o", "n">> => e.res = e.arg

\* phase 4 has returned a word ending "ement" without its "ent": the stem
\* before "ement" and the one before "ment" have measure <= 1
C12_Witness ==
    /\ fn = "4"
    /\ pc = "done"
    /\ C9_Ends(cur, <<"e", "m", "e", "n", "t">>)
    /\ measure(DropLast(cur, 5)) <= 1
    /\ measure(DropLast(cur, 4)) <= 1
    /\ ret = DropLast(cur, 3)

\* phase 4 has returned opinion for opinion: "ion" after a stem of measure 2
\* that ends in "n"
C12_IonKept ==
    /\ fn = "4"
    /\ pc = "done"
    /\ cur = <<"o", "p", "i", "n", "i", "o", "n">>
    /\ measure(DropLast(cur, 3)) > 1
    /\ ret = cur

\* C13: stem_tokenized never returns a word longer than the one it was
\* given, and every phase it calls returns a word no longer than the one it
\* received; the "e" the substep appends inside phase 1b comes after 2 or 3
\* graphemes were dropped.
C13_NeverLonger ==
    DriverCall =>
        /\ Len(cur) <= Len(Argument)
        /\ \A i \in 1..Len(trace) :
               LET e == trace[i] IN
               /\ Len(e.res) <= Len(e.arg)
               /\ e.sub # <<>> =>
                      /\ Len(e.arg) - Len(e.sub[1]) \in {2, 3}
                      /\ Len(e.res) <= Len(e.sub[1]) + 1
        /\ (pc = "done" /\ fn = "stem_tokenized") => Len(ret) <= Len(Argument)

\* a run of stem_tokenized has returned in which the substep appended an
\* "e" inside phase 1b
C13_Witness ==
    /\ fn = "stem_tokenized"
    /\ pc = "done"
    /\ \E i \in 1..Len(trace) :
           /\ trace[i].phase = "1b"
           /\ trace[i].sub # <<>>
           /\ Len(trace[i].res) = Len(trace[i].sub[1]) + 1
    /\ Len(ret) <= Len(Argument)

\* a run of stem_tokenized has returned in which phase 2 changed the word
\* and kept its length
C13_SameLength ==
    /\ fn = "stem_tokenized"
    /\ pc = "done"
    /\ \E i \in 1..Len(trace) :
           /\ trace[i].phase = "2"
           /\ trace[i].res # trace[i].arg
           /\ Len(trace[i].res) = Len(trace[i].arg)

\* the number of places of w, from position `index` on, where a consonant
\* follows a vowel, every position classified by porter_vowel
RECURSIVE C14_Scan(_, _)
C14_Scan(w, index) ==
    IF index >= Len(w) THEN 0
    ELSE C14_Scan(w, index + 1)
             + (IF porter_vowel(w, index - 1) /\ porter_consonant(w, index)
                THEN 1 ELSE 0)

\* C14: for every non-empty word porter_vowel at position 0 is real_vowel
\* of the first grapheme, and measure, seeded by real_vowel, returns what a
\* measure classifying every position, 0 included, by porter_vowel returns.
C14_SeedNotObservable ==
    (fn = "measure" /\ pc = "done") =>
        /\ cur # <<>> => (porter_vowel(cur, 0) <=> real_vowel(cur[1]))
        /\ ret = C14_Scan(cur, 1)

\* measure has returned for a word that starts with "y" before a consonant
C14_Witness ==
    /\ fn = "measure"
    /\ pc = "done"
    /\ Len(cur) > 1
    /\ cur[1] = "y"
    /\ ~real_vowel(cur[2])
    /\ ret = C14_Scan(cur, 1)

C15_LoneY ==
    /\ fn = "1c"
    /\ pc = "done"
    /\ cur = <<"y">>
    /\ ret = cur

====
